---- MODULE Spec2Model ----
(***************************************************************************)
(* Model of securesecrets/query-authentication.                            *)
(*                                                                         *)
(*   - src/src/pretty/{mod,seq,struct_}.rs : the pretty JSON serializer     *)
(*   - src/src/transaction.rs              : SignedTx / TxMsg / Fee / Coin  *)
(*   - src/src/permit.rs                   : Permit::validate               *)
(*                                                                         *)
(* Bytes are integers 0..255, byte strings are sequences of bytes, Rust    *)
(* strings are sequences of Unicode code points.  Hash functions are       *)
(* modelled as injective: a digest is the pair <<algorithm, message>>.     *)
(***************************************************************************)
EXTENDS Integers, Sequences, FiniteSets, TLC

(***************************************************************************)
(* Bounds of the model (not program constants).                            *)
(***************************************************************************)
\* Largest Uint128 a permit carries in account_number / sequence.
MaxNumber == 1

\* the longest string handed to the encoder on its own
MaxStrLen == 2

\* how many Permit::validate invocations run together
NumThreads == 2

(***************************************************************************)
(* State                                                                   *)
(***************************************************************************)
VARIABLES
    pc,         \* where the running Permit::validate stands
    permit,     \* the permit being validated (self)
    msg_type,   \* the override type passed to validate
    signed_tx,  \* the envelope built by create_signed_tx
    calls,      \* the calls made to api.secp256k1_verify, in order
    result,     \* what validate returned: None until it returns
    ser,        \* the Serializer of the latest to_vec_pretty / to_string_pretty
    encKey,     \* <<value index, indent, entry point>> of the latest encoding
    encOut,     \* the bytes the latest encoding returned
    refKey,     \* an earlier encoding kept for comparison
    refOut,
    otherSince, \* a different encoding ran since refKey was kept
    threads     \* the locals of each of the Permit::validate invocations that run together

vars == <<pc, permit, msg_type, signed_tx, calls, result, ser,
          encKey, encOut, refKey, refOut, otherSince, threads>>

validateVars == <<pc, permit, msg_type, signed_tx, calls, result>>

encVars == <<encKey, encOut, refKey, refOut, otherSince>>

(***************************************************************************)
(* String literals of the source, as byte strings.                          *)
(***************************************************************************)
\* "account_number"
Str_account_number == <<97, 99, 99, 111, 117, 110, 116, 95, 110, 117, 109, 98, 101, 114>>
\* "chain_id"
Str_chain_id == <<99, 104, 97, 105, 110, 95, 105, 100>>
\* "fee"
Str_fee == <<102, 101, 101>>
\* "memo"
Str_memo == <<109, 101, 109, 111>>
\* "msgs"
Str_msgs == <<109, 115, 103, 115>>
\* "sequence"
Str_sequence == <<115, 101, 113, 117, 101, 110, 99, 101>>
\* "amount"
Str_amount == <<97, 109, 111, 117, 110, 116>>
\* "denom"
Str_denom == <<100, 101, 110, 111, 109>>
\* "gas"
Str_gas == <<103, 97, 115>>
\* "type"
Str_type == <<116, 121, 112, 101>>
\* "value"
Str_value == <<118, 97, 108, 117, 101>>
\* "secret-4"
Str_secret_4 == <<115, 101, 99, 114, 101, 116, 45, 52>>
\* "uscrt"
Str_uscrt == <<117, 115, 99, 114, 116>>
\* "signature_proof"
Str_signature_proof == <<115, 105, 103, 110, 97, 116, 117, 114, 101, 95, 112, 114, 111, 111, 102>>
\* b"true"
Str_true == <<116, 114, 117, 101>>
\* b"false"
Str_false == <<102, 97, 108, 115, 101>>
\* b"null"
Str_null == <<110, 117, 108, 108>>
\* b"\x19Ethereum Signed Message:\n"
EthereumPrefix == <<25, 69, 116, 104, 101, 114, 101, 117, 109, 32, 83, 105, 103, 110, 101, 100, 32, 77, 101, 115, 115, 97, 103, 101, 58, 10>>
\* "tendermint/PubKeySecp256k1"
TendermintPubKeyType == <<116, 101, 110, 100, 101, 114, 109, 105, 110, 116, 47, 80, 117, 98, 75, 101, 121, 83, 101, 99, 112, 50, 53, 54, 107, 49>>
\* b"    " (permit.rs) and b"  " (pretty/mod.rs tests)
INDENT == <<32, 32, 32, 32>>
TestIndent == <<32, 32>>
\* "wasm/MsgExecuteContract"
FILLERPERMITNAME == <<119, 97, 115, 109, 47, 77, 115, 103, 69, 120, 101, 99, 117, 116, 101, 67, 111, 110, 116, 114, 97, 99, 116>>
\* "pulsar-1"
Str_pulsar_1 == <<112, 117, 108, 115, 97, 114, 45, 49>>
\* "b64Encoded"
Str_b64Encoded == <<98, 54, 52, 69, 110, 99, 111, 100, 101, 100>>
\* "address"
Str_address == <<97, 100, 100, 114, 101, 115, 115>>
\* "some_number"
Str_some_number == <<115, 111, 109, 101, 95, 110, 117, 109, 98, 101, 114>>
\* a pub_key.type that is not the tendermint literal: "other/PubKey"
Str_OtherKeyType == <<111, 116, 104, 101, 114, 47, 80, 117, 98, 75, 101, 121>>
\* "description"
Str_description == <<100, 101, 115, 99, 114, 105, 112, 116, 105, 111, 110>>

\* "sensor"
Str_sensor == <<115, 101, 110, 115, 111, 114>>

\* "x"
Str_x == <<120>>

\* "y"
Str_y == <<121>>

\* "a", "b"
Str_a == <<97>>
Str_b == <<98>>

(***************************************************************************)
(* Machine integers.  An integer of width bits is held as its two's        *)
(* complement bit pattern, a little-endian sequence of 16-bit limbs (one   *)
(* limb of 8 bits for i8 / u8), so that the 64- and 128-bit types keep     *)
(* their full range.                                                       *)
(***************************************************************************)
LimbBase == 65536

NumLimbs(bits) == IF bits <= 16 THEN 1 ELSE bits \div 16

\* the modulus of each limb of a type of the given width
LimbMod(bits) == IF bits = 8 THEN 256 ELSE LimbBase

zero_words(bits) == [i \in 1..NumLimbs(bits) |-> 0]

is_zero(w) == \A i \in 1..Len(w) : w[i] = 0

\* w + 1, wrapping at the width of the type
RECURSIVE add_one_from(_, _, _)
add_one_from(w, i, bits) ==
    IF i > Len(w) THEN w
    ELSE IF w[i] + 1 < LimbMod(bits) THEN [w EXCEPT ![i] = @ + 1]
    ELSE add_one_from([w EXCEPT ![i] = 0], i + 1, bits)

add_one(w, bits) == add_one_from(w, 1, bits)

\* -w in two's complement
negate(w, bits) == add_one([i \in 1..Len(w) |-> (LimbMod(bits) - 1) - w[i]], bits)

\* the sign bit
is_negative(w, bits) == w[Len(w)] >= LimbMod(bits) \div 2

\* the bit pattern of an integer the model can write as a literal
to_words(n, bits) ==
    LET m == IF n < 0 THEN 0 - n ELSE n
        mag == [i \in 1..NumLimbs(bits) |->
                   IF i = 1 THEN m % LimbMod(bits)
                   ELSE IF i = 2 THEN (m \div LimbBase) % LimbBase
                   ELSE 0]
    IN IF n < 0 THEN negate(mag, bits) ELSE mag

\* v / 10 and v % 10 of an unsigned bit pattern: long division, from the
\* most significant limb down
RECURSIVE divmod10_from(_, _, _, _)
divmod10_from(w, i, rem, q) ==
    IF i = 0 THEN [q |-> q, r |-> rem]
    ELSE LET cur == rem * LimbBase + w[i]
         IN divmod10_from(w, i - 1, cur % 10, [q EXCEPT ![i] = cur \div 10])

divmod10(w) == divmod10_from(w, Len(w), 0, w)

(***************************************************************************)
(* The serde data model: what a value's Serialize impl asks the serializer *)
(* to write.  A value is a record tagged by k.                             *)
(***************************************************************************)
VBool(b) == [k |-> "bool", b |-> b]
\* bits of the integer type named ty
Bits(ty) ==
    CASE ty \in {"i8", "u8"} -> 8
      [] ty \in {"i16", "u16"} -> 16
      [] ty \in {"i32", "u32"} -> 32
      [] ty \in {"i64", "u64"} -> 64
      [] ty \in {"i128", "u128"} -> 128

\* an integer written as a literal, and an integer given by its bit pattern
VInt(ty, n) == [k |-> ty, n |-> n, w |-> to_words(n, Bits(ty))]
VIntWords(ty, w) == [k |-> ty, w |-> w]
VStr(s) == [k |-> "str", s |-> s]
VNone == [k |-> "none"]
VSome(v) == [k |-> "some", v |-> v]
VUnit == [k |-> "unit"]
VUnitStruct == [k |-> "unit_struct"]
VUnitVariant(variant) == [k |-> "unit_variant", variant |-> variant]
VNewtypeStruct(v) == [k |-> "newtype_struct", v |-> v]
VNewtypeVariant(variant, v) == [k |-> "newtype_variant", variant |-> variant, v |-> v]
VSeq(elems) == [k |-> "seq", elems |-> elems]
VTuple(elems) == [k |-> "tuple", elems |-> elems]
VTupleVariant(variant, elems) == [k |-> "tuple_variant", variant |-> variant, elems |-> elems]
\* fields is a sequence of <<key, value>> in declaration order
VStruct(fields) == [k |-> "struct", fields |-> fields]
VStructVariant(variant, fields) == [k |-> "struct_variant", variant |-> variant, fields |-> fields]
VF32 == [k |-> "f32"]
VF64 == [k |-> "f64"]
VChar(c) == [k |-> "char", c |-> c]
VBytes(bs) == [k |-> "bytes", bs |-> bs]
VTupleStruct(elems) == [k |-> "tuple_struct", elems |-> elems]

(***************************************************************************)
(* pretty/mod.rs : Serializer                                              *)
(***************************************************************************)
\* Serializer { buf, current_indent, indent }.  status is "ok" until an
\* unreachable!() is hit, after which the thread has panicked and nothing
\* more is written.
\* Faulty variant: the new serializer starts from the indent counter the
\* previous one ended with.
Serializer_new_stale(indent) ==
    [buf |-> <<>>, current_indent |-> ser.current_indent, indent |-> indent,
     status |-> "ok"]

Serializer_new(indent) ==
    [buf |-> <<>>, current_indent |-> 0, indent |-> indent, status |-> "ok"]

push(self, byte) == [self EXCEPT !.buf = Append(@, byte)]

extend_from_slice(self, bytes) == [self EXCEPT !.buf = @ \o bytes]

unreachable(self) == [self EXCEPT !.status = "panic"]

RECURSIVE Repeat(_, _)
Repeat(bytes, n) == IF n <= 0 THEN <<>> ELSE bytes \o Repeat(bytes, n - 1)

\* for _ in 0..self.current_indent { buf.extend_from_slice(self.indent) }
indent(self) == extend_from_slice(self, Repeat(self.indent, self.current_indent))

\* usize arithmetic of current_indent: `-= 1` on 0 overflows (panics in a
\* debug build, wraps in a release build; either way the value is no longer
\* a valid depth).  The model records it in status.
dec_indent(self) ==
    IF self.current_indent = 0
    THEN [self EXCEPT !.status = "overflow"]
    ELSE [self EXCEPT !.current_indent = @ - 1]

inc_indent(self) == [self EXCEPT !.current_indent = @ + 1]

\* serialize_unsigned!: the loop filling buf[i] from the right.
\* buf is the local array [0u8; N], indexed 0..N-1; i is a usize, and an
\* index below 0 is reported as i = -1 (the subtraction overflows).
RECURSIVE unsigned_loop(_, _, _)
unsigned_loop(buf, v, i) ==
    IF i < 0 THEN [buf |-> buf, i |-> 0 - 1]
    ELSE LET dm == divmod10(v)
             buf1 == [buf EXCEPT ![i] = dm.r + 48]
         IN IF is_zero(dm.q)
            THEN [buf |-> buf1, i |-> i]
            ELSE unsigned_loop(buf1, dm.q, i - 1)

\* buf[i..] of an array indexed 0..N-1
slice_from(buf, N, i) == [j \in 1..(N - i) |-> buf[i + j - 1]]

serialize_unsigned(self, N, v) ==
    LET r == unsigned_loop([j \in 0..(N - 1) |-> 0], v, N - 1)
    IN IF r.i < 0 THEN [self EXCEPT !.status = "overflow"]
       ELSE extend_from_slice(self, slice_from(r.buf, N, r.i))

\* a variant of the signed loop that steps i only between two digits
signed_loop_no_dec(buf, v, i) == unsigned_loop(buf, v, i)

\* serialize_signed!: here `i -= 1` comes before the test of v.
RECURSIVE signed_loop(_, _, _)
signed_loop(buf, v, i) ==
    IF i < 0 THEN [buf |-> buf, i |-> 0 - 1]
    ELSE LET dm == divmod10(v)
             buf1 == [buf EXCEPT ![i] = dm.r + 48]
         IN IF is_zero(dm.q)
            THEN [buf |-> buf1, i |-> i - 1]
            ELSE signed_loop(buf1, dm.q, i - 1)

RECURSIVE Pow2(_)
Pow2(n) == IF n = 0 THEN 1 ELSE 2 * Pow2(n - 1)

\* min_value / max_value of the signed type of the given bit width, as bit
\* patterns: the sign bit alone, and every bit but the sign bit
min_value(bits) ==
    [i \in 1..NumLimbs(bits) |->
        IF i = NumLimbs(bits) THEN Pow2((bits - 1) % 16) ELSE 0]

max_value(bits) ==
    [i \in 1..NumLimbs(bits) |->
        IF i = NumLimbs(bits) THEN Pow2((bits - 1) % 16) - 1 ELSE LimbBase - 1]

serialize_signed(self, N, v, bits) ==
    LET signed == v = min_value(bits) \/ is_negative(v, bits)
        \* (true, max_value as uxx + 1) / (true, -v as uxx) / (false, v as uxx)
        uv == IF v = min_value(bits) THEN add_one(max_value(bits), bits)
              ELSE IF is_negative(v, bits) THEN negate(v, bits)
              ELSE v
        r == signed_loop([j \in 0..(N - 1) |-> 0], uv, N - 1)
        buf == IF signed /\ r.i >= 0 THEN [r.buf EXCEPT ![r.i] = 45] ELSE r.buf
        i == IF signed THEN r.i ELSE r.i + 1
    IN IF r.i < 0 THEN [self EXCEPT !.status = "overflow"]
       ELSE extend_from_slice(self, slice_from(buf, N, i))

\* a variant with lower-case letters
hex_4bit_lower(c) == IF c <= 9 THEN 48 + c ELSE 97 + (c - 10)

\* Upper-case hex for value in 0..16
hex_4bit(c) == IF c <= 9 THEN 48 + c ELSE 65 + (c - 10)

\* Upper-case hex for value in 0..256: (c >> 4, c & 0x0F)
hex(c) == <<hex_4bit(c \div 16), hex_4bit(c % 16)>>

\* char::len_utf8
len_utf8(c) ==
    IF c < 128 THEN 1 ELSE IF c < 2048 THEN 2 ELSE IF c < 65536 THEN 3 ELSE 4

\* char::encode_utf8
encode_utf8(c) ==
    IF c < 128 THEN <<c>>
    ELSE IF c < 2048 THEN <<192 + (c \div 64), 128 + (c % 64)>>
    ELSE IF c < 65536
         THEN <<224 + (c \div 4096), 128 + ((c \div 64) % 64), 128 + (c % 64)>>
    ELSE <<240 + (c \div 262144), 128 + ((c \div 4096) % 64),
           128 + ((c \div 64) % 64), 128 + (c % 64)>>

\* the match arm of serialize_str for one char
escape_char(c) ==
    IF c = 92 THEN <<92, 92>>
    ELSE IF c = 34 THEN <<92, 34>>
    ELSE IF c = 8 THEN <<92, 98>>
    ELSE IF c = 9 THEN <<92, 116>>
    ELSE IF c = 10 THEN <<92, 110>>
    ELSE IF c = 12 THEN <<92, 102>>
    ELSE IF c = 13 THEN <<92, 114>>
    ELSE IF c >= 0 /\ c <= 31 THEN <<92, 117, 48, 48>> \o hex(c)
    ELSE IF len_utf8(c) = 1 THEN <<c>>
    ELSE encode_utf8(c)

RECURSIVE escape_chars(_)
escape_chars(v) ==
    IF v = <<>> THEN <<>> ELSE escape_char(Head(v)) \o escape_chars(Tail(v))

serialize_str(self, v) ==
    push(extend_from_slice(push(self, 34), escape_chars(v)), 34)

serialize_bool(self, v) ==
    IF v THEN extend_from_slice(self, Str_true) ELSE extend_from_slice(self, Str_false)

serialize_i8(self, v) == serialize_signed(self, 4, v, 8)

serialize_i16(self, v) == serialize_signed(self, 6, v, 16)

serialize_i32(self, v) == serialize_signed(self, 11, v, 32)

serialize_i64(self, v) == serialize_signed(self, 20, v, 64)

serialize_i128(self, v) == push(serialize_signed(push(self, 34), 40, v, 128), 34)

serialize_u8(self, v) == serialize_unsigned(self, 3, v)

serialize_u16(self, v) == serialize_unsigned(self, 5, v)

serialize_u32(self, v) == serialize_unsigned(self, 10, v)

serialize_u64(self, v) == serialize_unsigned(self, 20, v)

serialize_u128(self, v) == push(serialize_unsigned(push(self, 34), 39, v), 34)

serialize_f32(self) == unreachable(self)

serialize_f64(self) == unreachable(self)

serialize_char(self) == unreachable(self)

serialize_bytes(self) == unreachable(self)

serialize_tuple_struct(self) == unreachable(self)

\* a variant that writes nothing for an absent value
serialize_none_omitted(self) == self

serialize_none(self) == extend_from_slice(self, Str_null)

serialize_unit(self) == extend_from_slice(self, Str_null)

serialize_unit_struct(self) == extend_from_slice(self, Str_null)

serialize_unit_variant(self, variant) == serialize_str(self, variant)

(***************************************************************************)
(* Compound values: pretty/seq.rs, pretty/struct_.rs and the serialize_*   *)
(* methods of pretty/mod.rs that open them.  SerializeSeq and              *)
(* SerializeStruct are records [self, first].                               *)
(***************************************************************************)
SerializeSeq_new(self) == [ser |-> self, first |-> TRUE]

SerializeStruct_new(self) == [ser |-> self, first |-> TRUE]

RECURSIVE serialize(_, _)
RECURSIVE SerializeSeq_serialize_element(_, _)
RECURSIVE SerializeStruct_serialize_field(_, _, _)
RECURSIVE serialize_elements(_, _)
RECURSIVE serialize_fields(_, _)
RECURSIVE serialize_fields_reversed(_, _)

\* impl ser::SerializeSeq for SerializeSeq :: serialize_element
\* (SerializeTuple::serialize_element and SerializeTupleVariant::serialize_field
\* delegate to it)
SerializeSeq_serialize_element(s, value) ==
    LET s1 == IF ~s.first THEN push(s.ser, 44) ELSE s.ser
        s2 == indent(push(s1, 10))
    IN [ser |-> serialize(s2, value), first |-> FALSE]

\* impl ser::SerializeSeq for SerializeSeq :: end (SerializeTuple::end delegates)
SerializeSeq_end(s) ==
    LET s1 == dec_indent(s.ser)
        s2 == IF ~s.first THEN indent(push(s1, 10)) ELSE s1
    IN push(s2, 93)

\* impl ser::SerializeTupleVariant for SerializeSeq :: end
\* a variant that leaves the surrounding enum open
SerializeTupleVariant_end_unclosed(s) == push(s.ser, 93)

SerializeTupleVariant_end(s) == push(push(s.ser, 93), 125)

\* impl ser::SerializeStruct for SerializeStruct :: serialize_field
\* (SerializeStructVariant::serialize_field has the same body)
SerializeStruct_serialize_field(s, key, value) ==
    LET s1 == IF ~s.first THEN push(s.ser, 44) ELSE s.ser
        s2 == indent(push(s1, 10))
        s3 == extend_from_slice(extend_from_slice(push(s2, 34), key), <<34, 58, 32>>)
    IN [ser |-> serialize(s3, value), first |-> FALSE]

\* impl ser::SerializeStruct for SerializeStruct :: end
SerializeStruct_end(s) ==
    LET s1 == dec_indent(s.ser)
        s2 == IF ~s.first THEN indent(push(s1, 10)) ELSE s1
    IN push(s2, 125)

\* impl ser::SerializeStructVariant for SerializeStruct :: end
\* (for _ in 0..2 { the body of SerializeStruct::end })
SerializeStructVariant_end(s) ==
    SerializeStruct_end([ser |-> SerializeStruct_end(s), first |-> s.first])

\* the derived Serialize impls call serialize_element / serialize_field once
\* per element / field, in order
serialize_elements(s, elems) ==
    IF elems = <<>> THEN s
    ELSE serialize_elements(SerializeSeq_serialize_element(s, Head(elems)), Tail(elems))

\* a variant that visits the fields from the last declared to the first
serialize_fields_reversed(s, fields) ==
    IF fields = <<>> THEN s
    ELSE SerializeStruct_serialize_field(
             serialize_fields_reversed(s, Tail(fields)),
             Head(fields)[1], Head(fields)[2])

serialize_fields(s, fields) ==
    IF fields = <<>> THEN s
    ELSE serialize_fields(
             SerializeStruct_serialize_field(s, Head(fields)[1], Head(fields)[2]),
             Tail(fields))

serialize_some(self, value) == serialize(self, value)

serialize_newtype_struct(self, value) == serialize(self, value)

serialize_newtype_variant(self, variant, value) ==
    LET s == SerializeStruct_new(push(inc_indent(self), 123))
    IN SerializeStruct_end(SerializeStruct_serialize_field(s, variant, value))

serialize_seq(self) == SerializeSeq_new(push(inc_indent(self), 91))

serialize_tuple(self) == serialize_seq(self)

serialize_tuple_variant(self, variant) ==
    serialize_tuple(push(serialize_str(push(inc_indent(self), 123), variant), 58))

serialize_struct(self) == SerializeStruct_new(push(inc_indent(self), 123))

serialize_struct_variant(self, variant) ==
    LET s1 == indent(extend_from_slice(inc_indent(self), <<123, 10>>))
        s2 == extend_from_slice(extend_from_slice(push(s1, 34), variant),
                                <<34, 58, 32, 123>>)
    IN SerializeStruct_new(inc_indent(s2))

\* value.serialize(&mut ser): the Serialize impl of the value calls the
\* serializer method of its shape.  Once the thread has panicked nothing runs.
serialize(self, value) ==
    IF self.status # "ok" THEN self
    ELSE CASE value.k = "bool" -> serialize_bool(self, value.b)
           [] value.k = "i8" -> serialize_i8(self, value.w)
           [] value.k = "i16" -> serialize_i16(self, value.w)
           [] value.k = "i32" -> serialize_i32(self, value.w)
           [] value.k = "i64" -> serialize_i64(self, value.w)
           [] value.k = "i128" -> serialize_i128(self, value.w)
           [] value.k = "u8" -> serialize_u8(self, value.w)
           [] value.k = "u16" -> serialize_u16(self, value.w)
           [] value.k = "u32" -> serialize_u32(self, value.w)
           [] value.k = "u64" -> serialize_u64(self, value.w)
           [] value.k = "u128" -> serialize_u128(self, value.w)
           [] value.k = "f32" -> serialize_f32(self)
           [] value.k = "f64" -> serialize_f64(self)
           [] value.k = "char" -> serialize_char(self)
           [] value.k = "str" -> serialize_str(self, value.s)
           [] value.k = "bytes" -> serialize_bytes(self)
           [] value.k = "none" -> serialize_none(self)
           [] value.k = "some" -> serialize_some(self, value.v)
           [] value.k = "unit" -> serialize_unit(self)
           [] value.k = "unit_struct" -> serialize_unit_struct(self)
           [] value.k = "unit_variant" -> serialize_unit_variant(self, value.variant)
           [] value.k = "newtype_struct" -> serialize_newtype_struct(self, value.v)
           [] value.k = "newtype_variant" ->
                  serialize_newtype_variant(self, value.variant, value.v)
           [] value.k = "seq" ->
                  SerializeSeq_end(serialize_elements(serialize_seq(self), value.elems))
           [] value.k = "tuple" ->
                  SerializeSeq_end(serialize_elements(serialize_tuple(self), value.elems))
           [] value.k = "tuple_struct" -> serialize_tuple_struct(self)
           [] value.k = "tuple_variant" ->
                  SerializeTupleVariant_end(
                      serialize_elements(serialize_tuple_variant(self, value.variant),
                                         value.elems))
           [] value.k = "struct" ->
                  SerializeStruct_end(serialize_fields(serialize_struct(self), value.fields))
           [] value.k = "struct_variant" ->
                  SerializeStructVariant_end(
                      serialize_fields(serialize_struct_variant(self, value.variant),
                                       value.fields))

\* to_vec_pretty / to_string_pretty: a new Serializer, value.serialize(&mut ser),
\* Ok(self.buf).  The operator gives the finished serializer; its buf is the
\* returned vector (the bytes of the returned String).
to_vec_pretty(value, ind) == serialize(Serializer_new(ind), value)

to_string_pretty(value, ind) == serialize(Serializer_new(ind), value)

(***************************************************************************)
(* The compact encoding: cosmwasm_std::to_binary (serde-json-wasm), the    *)
(* encoder outside this repository that permit.rs:47 calls.  Modelled from *)
(* the specification (4.1): the same key order, escaping and number        *)
(* rendering as the pretty serializer, with no whitespace.                 *)
(***************************************************************************)
\* Display of an unsigned integer (u128::to_string, usize::to_string):
\* base-10 ASCII digits
RECURSIVE to_string(_)
to_string(n) ==
    IF n < 10 THEN <<48 + n>> ELSE to_string(n \div 10) \o <<48 + (n % 10)>>

compact_int(n) == IF n < 0 THEN <<45>> \o to_string(0 - n) ELSE to_string(n)

RECURSIVE compact(_)
RECURSIVE compact_elements(_, _)
RECURSIVE compact_fields(_, _)

compact_elements(elems, first) ==
    IF elems = <<>> THEN <<>>
    ELSE (IF first THEN <<>> ELSE <<44>>) \o compact(Head(elems))
         \o compact_elements(Tail(elems), FALSE)

compact_fields(fields, first) ==
    IF fields = <<>> THEN <<>>
    ELSE (IF first THEN <<>> ELSE <<44>>)
         \o <<34>> \o Head(fields)[1] \o <<34, 58>> \o compact(Head(fields)[2])
         \o compact_fields(Tail(fields), FALSE)

compact(value) ==
    CASE value.k = "bool" -> IF value.b THEN Str_true ELSE Str_false
      [] value.k \in {"i8", "i16", "i32", "i64"} -> compact_int(value.n)
      [] value.k \in {"u8", "u16", "u32", "u64"} -> compact_int(value.n)
      [] value.k \in {"i128", "u128"} -> <<34>> \o compact_int(value.n) \o <<34>>
      [] value.k = "str" -> <<34>> \o escape_chars(value.s) \o <<34>>
      [] value.k \in {"none", "unit", "unit_struct"} -> Str_null
      [] value.k \in {"some", "newtype_struct"} -> compact(value.v)
      [] value.k = "unit_variant" -> <<34>> \o escape_chars(value.variant) \o <<34>>
      [] value.k = "newtype_variant" ->
             <<123, 34>> \o value.variant \o <<34, 58>> \o compact(value.v) \o <<125>>
      [] value.k \in {"seq", "tuple"} ->
             <<91>> \o compact_elements(value.elems, TRUE) \o <<93>>
      [] value.k = "tuple_variant" ->
             <<123, 34>> \o value.variant \o <<34, 58, 91>>
             \o compact_elements(value.elems, TRUE) \o <<93, 125>>
      [] value.k = "struct" ->
             <<123>> \o compact_fields(value.fields, TRUE) \o <<125>>
      [] value.k = "struct_variant" ->
             <<123, 34>> \o value.variant \o <<34, 58, 123>>
             \o compact_fields(value.fields, TRUE) \o <<125, 125>>

\* to_binary(&T) -> StdResult<Binary>
to_binary(value) == compact(value)

(***************************************************************************)
(* Option<T>, Uint128, Binary                                              *)
(***************************************************************************)
None == [some |-> FALSE]

Some(x) == [some |-> TRUE, v |-> x]

unwrap_or(opt, default) == IF opt.some THEN opt.v ELSE default

\* impl Serialize for Uint128 (cosmwasm_std): serialize_str(&self.to_string())
Uint128_serialize(n) == VStr(to_string(n))

(***************************************************************************)
(* transaction.rs                                                          *)
(***************************************************************************)
\* impl Default for Coin
Coin_default == [amount |-> 0, denom |-> Str_uscrt]

\* impl Default for Fee
Fee_default == [amount |-> <<Coin_default>>, gas |-> 1]

\* TxMsg::new(params, msg_type)
\* Faulty variant: an absent override type falls back to another name.
TxMsg_new_other_default(params, t) ==
    [type |-> unwrap_or(t, FILLERPERMITNAME), value |-> params]

TxMsg_new(params, t) ==
    [type |-> unwrap_or(t, Str_signature_proof), value |-> params]

\* Faulty variant: the permit's memo is left out of the envelope.
from_permit_drops_memo(p, t) ==
    [account_number |-> unwrap_or(p.account_number, 0),
     chain_id |-> unwrap_or(p.chain_id, Str_secret_4),
     fee |-> Fee_default,
     memo |-> <<>>,
     msgs |-> <<TxMsg_new(p.params, t)>>,
     sequence |-> unwrap_or(p.sequence, 0)]

\* Faulty variant: sequence is filled from account_number.
from_permit_swaps_numbers(p, t) ==
    [account_number |-> unwrap_or(p.account_number, 0),
     chain_id |-> unwrap_or(p.chain_id, Str_secret_4),
     fee |-> Fee_default,
     memo |-> unwrap_or(p.memo, <<>>),
     msgs |-> <<TxMsg_new(p.params, t)>>,
     sequence |-> unwrap_or(p.account_number, 0)]

\* SignedTx::from_permit(permit, msg_type)
from_permit(p, t) ==
    [account_number |-> unwrap_or(p.account_number, 0),
     chain_id |-> unwrap_or(p.chain_id, Str_secret_4),
     fee |-> Fee_default,
     memo |-> unwrap_or(p.memo, <<>>),
     msgs |-> <<TxMsg_new(p.params, t)>>,
     sequence |-> unwrap_or(p.sequence, 0)]

\* #[derive(Serialize)] struct Coin { amount, denom }
Coin_serialize(coin) ==
    VStruct(<< <<Str_amount, Uint128_serialize(coin.amount)>>,
               <<Str_denom, VStr(coin.denom)>> >>)

\* #[derive(Serialize)] struct Fee { amount, gas }
Fee_serialize(fee) ==
    VStruct(<< <<Str_amount, VSeq([i \in 1..Len(fee.amount) |-> Coin_serialize(fee.amount[i])])>>,
               <<Str_gas, Uint128_serialize(fee.gas)>> >>)

\* #[derive(Serialize)] struct TxMsg<T> { type, value }; the payload T is
\* held as the serde value its own Serialize impl writes
TxMsg_serialize(msg) ==
    VStruct(<< <<Str_type, VStr(msg.type)>>, <<Str_value, msg.value>> >>)

\* #[derive(Serialize)] struct SignedTx<T>
\*   { account_number, chain_id, fee, memo, msgs, sequence }
SignedTx_serialize(tx) ==
    VStruct(<< <<Str_account_number, Uint128_serialize(tx.account_number)>>,
               <<Str_chain_id, VStr(tx.chain_id)>>,
               <<Str_fee, Fee_serialize(tx.fee)>>,
               <<Str_memo, VStr(tx.memo)>>,
               <<Str_msgs, VSeq([i \in 1..Len(tx.msgs) |-> TxMsg_serialize(tx.msgs[i])])>>,
               <<Str_sequence, Uint128_serialize(tx.sequence)>> >>)

(***************************************************************************)
(* lib.rs / permit.rs : digests.  Injective: the digest names its          *)
(* algorithm and its message.                                              *)
(***************************************************************************)
sha_256(data) == [alg |-> "sha256", msg |-> data]

Keccak256(data) == [alg |-> "keccak256", msg |-> data]

\* permit.rs: to_binary_pretty(data) = to_vec_pretty(data, b"    ")
to_binary_pretty(value) == to_vec_pretty(value, INDENT)

\* permit.rs:47-48: the digest of the direct scheme
direct_hash(tx) == sha_256(to_binary(SignedTx_serialize(tx)))

\* permit.rs:61-67: the message of the browser-wallet scheme, from the pretty
\* encoding
\* a variant that leaves the length out
ethereum_signed_bytes_no_length(pretty) == EthereumPrefix \o pretty

ethereum_signed_bytes(pretty) == EthereumPrefix \o to_string(Len(pretty)) \o pretty

(***************************************************************************)
(* Results and errors (cosmwasm_std::StdResult / StdError)                 *)
(***************************************************************************)
Ok(x) == [ok |-> TRUE, value |-> x]

Err(e) == [ok |-> FALSE, err |-> e]

\* StdError::generic_err(msg)
generic_err(msg) == [kind |-> "GenericErr", msg |-> msg]

\* permit.rs:83
SignatureInvalid == generic_err("Signature verification failed")

(***************************************************************************)
(* The primitive api.secp256k1_verify(hash, signature, public_key)         *)
(* -> Result<bool, VerificationError>.  It is a trait object supplied by   *)
(* the caller: a call may answer Ok(true), Ok(false) or Err(e).            *)
(***************************************************************************)
VerificationErrors == {"Invalid signature format"}

PrimitiveResults ==
    {[ok |-> TRUE, verified |-> TRUE], [ok |-> TRUE, verified |-> FALSE]}
    \cup {[ok |-> FALSE, err |-> e] : e \in VerificationErrors}

(***************************************************************************)
(* Inputs.  Payloads are the test payloads of permit.rs.                    *)
(***************************************************************************)
\* a short stand-in for the bech32 ADDRESS of the tests: "secret1"
ADDRESS == <<115, 101, 99, 114, 101, 116, 49>>

\* TestPermitMsg { address, some_number }
TestPermitMsg(some_number) ==
    VStruct(<< <<Str_address, VStr(ADDRESS)>>,
               <<Str_some_number, Uint128_serialize(some_number)>> >>)

ParamsValues == {TestPermitMsg(10), TestPermitMsg(100)}

Numbers == {None} \cup {Some(n) : n \in 0..MaxNumber}

ChainIds == {None, Some(Str_secret_4), Some(Str_pulsar_1)}

Memos == {None, Some(<<>>), Some(Str_b64Encoded)}

MsgTypes == {None, Some(Str_signature_proof), Some(FILLERPERMITNAME)}

\* Binary values stand for the 33-byte keys and 64-byte signatures of the
\* tests; MALFORMED_SIG is a signature of the wrong length.
PUBKEY_A == <<3, 74>>

PUBKEY_B == <<2, 11>>

SIG_A == <<226, 150>>

SIG_B == <<198, 162>>

MALFORMED_SIG == <<0>>

\* PubKey::new(pubkey)
PubKey_new(pubkey) == [type |-> TendermintPubKeyType, value |-> pubkey]

\* PermitSignature { pub_key: PubKey { type, value }, signature }
PermitSignatures ==
    {[pub_key |-> PubKey_new(PUBKEY_A), signature |-> SIG_A],
     [pub_key |-> PubKey_new(PUBKEY_B), signature |-> SIG_B],
     [pub_key |-> PubKey_new(PUBKEY_B), signature |-> SIG_A],
     [pub_key |-> PubKey_new(PUBKEY_A), signature |-> MALFORMED_SIG],
     [pub_key |-> [type |-> Str_OtherKeyType, value |-> PUBKEY_A], signature |-> SIG_A]}

\* Permit<T> { params, signature, account_number, chain_id, sequence, memo }
Permits ==
    {[params |-> pa, signature |-> sg,
      account_number |-> an, chain_id |-> ci, sequence |-> sq, memo |-> mm] :
        pa \in ParamsValues, sg \in PermitSignatures,
        an \in Numbers, ci \in ChainIds, sq \in Numbers, mm \in Memos}

\* no serializer is alive
NoSerializer == [buf |-> <<>>, current_indent |-> 0, indent |-> <<>>, status |-> "ok"]

Threads == 1..NumThreads

\* an invocation that has not started: no locals
IdleThread ==
    [pc |-> "idle", permit |-> None, msg_type |-> None, signed_tx |-> None,
     ser |-> NoSerializer, result |-> None]

Init ==
    /\ pc = "idle"
    /\ permit = None
    /\ msg_type = None
    /\ signed_tx = None
    /\ calls = <<>>
    /\ result = None
    /\ ser = NoSerializer
    /\ encKey = None
    /\ encOut = <<>>
    /\ refKey = None
    /\ refOut = <<>>
    /\ otherSince = FALSE
    /\ threads = [t \in Threads |-> IdleThread]

(***************************************************************************)
(* permit.rs : Permit::validate / validate_signed_tx                       *)
(***************************************************************************)
\* Faulty variant: an accepted direct signature does not return.
direct_return_never(verification_result, pubkey) == None

\* Faulty variant: an error of the primitive is returned at once
\* (`api.secp256k1_verify(..)?`).
direct_return_hard_error(verification_result, pubkey) ==
    IF ~verification_result.ok
    THEN Some(Err(generic_err(verification_result.err)))
    ELSE IF verification_result.verified
    THEN Some(Ok(pubkey))
    ELSE None

\* permit.rs:53-57: `if let Ok(verified) = verification_result { if verified {
\* return Ok(PubKeyValue(pubkey.clone())) } }`: Some(r) when the function
\* returns r here, None when it goes on to the Ethereum scheme
direct_return(verification_result, pubkey) ==
    IF verification_result.ok /\ verification_result.verified
    THEN Some(Ok(pubkey))
    ELSE None

\* Faulty variant: the `if verified` test is missing.
ethereum_return_lenient(verification_result, pubkey) ==
    IF ~verification_result.ok
    THEN Err(generic_err(verification_result.err))
    ELSE Ok(pubkey)

\* Faulty variant: an error of the first call is reported in place of the
\* second call's failure.
ethereum_return_first_error(verification_result, pubkey) ==
    IF verification_result.ok /\ verification_result.verified
    THEN Ok(pubkey)
    ELSE IF ~calls[1].result.ok
    THEN Err(generic_err(calls[1].result.err))
    ELSE IF ~verification_result.ok
    THEN Err(generic_err(verification_result.err))
    ELSE Err(SignatureInvalid)

\* permit.rs:75-83: what validate_signed_tx returns after the second call
ethereum_return(verification_result, pubkey) ==
    IF ~verification_result.ok
    THEN Err(generic_err(verification_result.err))
    ELSE IF verification_result.verified
    THEN Ok(pubkey)
    ELSE Err(SignatureInvalid)

\* permit.rs:35-36: validate builds the envelope (create_signed_tx) and
\* enters validate_signed_tx
Validate(p, t) ==
    /\ pc = "idle"
    /\ permit' = p
    /\ msg_type' = t
    /\ signed_tx' = from_permit(p, t)
    /\ calls' = <<>>
    /\ result' = None
    /\ pc' = "direct"
    /\ UNCHANGED <<ser, encVars, threads>>

\* permit.rs:44-57: the direct scheme
DirectVerify ==
    /\ pc = "direct"
    /\ LET pubkey == permit.signature.pub_key.value
           signed_bytes_hash == direct_hash(signed_tx)
       IN \E verification_result \in PrimitiveResults :
            /\ calls' = Append(calls, [hash |-> signed_bytes_hash,
                                       signature |-> permit.signature.signature,
                                       public_key |-> pubkey,
                                       result |-> verification_result])
            /\ result' = direct_return(verification_result, pubkey)
            /\ pc' = IF result'.some THEN "done" ELSE "ethereum"
    /\ UNCHANGED <<permit, msg_type, signed_tx, ser, encVars, threads>>

\* permit.rs:59-83: the browser-wallet (Ethereum personal-sign) scheme
EthVerify ==
    /\ pc = "ethereum"
    /\ LET pubkey == permit.signature.pub_key.value
           pretty == to_binary_pretty(SignedTx_serialize(signed_tx))
           signed_bytes_hash == Keccak256(ethereum_signed_bytes(pretty.buf))
       IN /\ ser' = pretty
          /\ \E verification_result \in PrimitiveResults :
               /\ calls' = Append(calls, [hash |-> signed_bytes_hash,
                                          signature |-> permit.signature.signature,
                                          public_key |-> pubkey,
                                          result |-> verification_result])
               /\ result' = Some(ethereum_return(verification_result, pubkey))
    /\ pc' = "done"
    /\ UNCHANGED <<permit, msg_type, signed_tx, encVars, threads>>

\* the caller takes the result and the locals of validate_signed_tx are
\* dropped; the next validate may start
Return ==
    /\ pc = "done"
    /\ pc' = "idle"
    /\ permit' = None
    /\ msg_type' = None
    /\ signed_tx' = None
    /\ calls' = <<>>
    /\ result' = None
    /\ ser' = NoSerializer
    /\ UNCHANGED <<encVars, threads>>

Next ==
    \/ \E p \in Permits, t \in MsgTypes : Validate(p, t)
    \/ DirectVerify
    \/ EthVerify
    \/ Return

Spec == Init /\ [][Next]_vars

(***************************************************************************)
(* The encoder called directly, as the tests of pretty/mod.rs and          *)
(* permit.rs do: a caller encodes values one after the other.              *)
(***************************************************************************)
\* test_signed_tx's permit, whose envelope is among the encoded values
TestPermit ==
    [params |-> TestPermitMsg(10),
     signature |-> [pub_key |-> PubKey_new(PUBKEY_A), signature |-> SIG_A],
     account_number |-> None, chain_id |-> Some(Str_pulsar_1),
     sequence |-> None, memo |-> None]

\* values of the tests of pretty/mod.rs, one per compound shape
EncValues ==
    <<VStruct(<< <<Str_a, VBool(TRUE)>>, <<Str_b, VBool(FALSE)>> >>),
      VStruct(<<>>),
      VTupleVariant(<<65>>, <<VInt("u8", 1), VInt("u8", 2)>>),
      VStructVariant(<<65>>, << <<Str_a, VInt("u32", 54)>>, <<Str_b, VInt("u16", 720)>> >>),
      VNewtypeVariant(<<65>>, VSeq(<<VStr(Str_a), VSeq(<<>>)>>)),
      SignedTx_serialize(from_permit(TestPermit, None)),
      VStruct(<< <<Str_description, VNone>> >>),
      VStruct(<< <<Str_description, VSome(VStr(Str_sensor))>> >>),
      VStruct(<< <<Str_x, VNone>>, <<Str_y, VSome(VInt("u8", 7))>>, <<Str_a, VNone>> >>),
      VSeq(<<VTupleVariant(<<65>>, <<VInt("u8", 1)>>), VInt("u8", 2)>>),
      VSeq(<<VSeq(<<>>), VSeq(<<VStruct(<< <<Str_a, VBool(TRUE)>> >>), VUnit>>)>>)>>

Indents == {INDENT, TestIndent}

\* the caller keeps what the encoder returned
EncodePretty(i, ind, entry) ==
    /\ ser' = IF entry = "to_vec_pretty"
              THEN to_vec_pretty(EncValues[i], ind)
              ELSE to_string_pretty(EncValues[i], ind)
    /\ encKey' = Some(<<i, ind, entry>>)
    /\ encOut' = ser'.buf
    /\ otherSince' = (otherSince \/ (refKey.some /\ encKey' # refKey))
    /\ UNCHANGED <<validateVars, threads, refKey, refOut>>

\* (the compact encoder runs without a Serializer of pretty/mod.rs, and the
\* one of an earlier to_vec_pretty was dropped when that call returned)
EncodeCompact(i) ==
    /\ encKey' = Some(<<i, <<>>, "to_binary">>)
    /\ encOut' = to_binary(EncValues[i])
    /\ ser' = NoSerializer
    /\ otherSince' = (otherSince \/ (refKey.some /\ encKey' # refKey))
    /\ UNCHANGED <<validateVars, threads, refKey, refOut>>

\* keep the latest encoding to compare a later one with
Remember ==
    /\ encKey.some
    /\ refKey' = encKey
    /\ refOut' = encOut
    /\ otherSince' = FALSE
    /\ UNCHANGED <<validateVars, threads, ser, encKey, encOut>>

NextEnc ==
    \/ \E i \in 1..Len(EncValues), ind \in Indents,
          entry \in {"to_vec_pretty", "to_string_pretty"} : EncodePretty(i, ind, entry)
    \/ \E i \in 1..Len(EncValues) : EncodeCompact(i)
    \/ Remember

SpecEnc == Init /\ [][NextEnc]_vars

(***************************************************************************)
(* The encoder called on scalars, as tests::str and tests::struct_i8 do:   *)
(* one integer, string or other scalar value per call.                     *)
(***************************************************************************)
IntTypes == {"i8", "i16", "i32", "i64", "i128", "u8", "u16", "u32", "u64", "u128"}

SignedTypes == {"i8", "i16", "i32", "i64", "i128"}

\* limbs at the edges of a limb's range and of a digit count
LimbSamples == {0, 1, 9, 10, 32767, 32768, 65535}

\* bit patterns of a type: every pattern of the 8-bit types, samples of the
\* wider ones that include zero, -1, min_value and max_value
WordsOf(bits) ==
    IF bits = 8 THEN {<<b>> : b \in 0..255}
    ELSE IF bits = 16
    THEN {<<l>> : l \in LimbSamples \cup {99, 100, 999, 1000, 9999, 10000, 32769, 65534}}
    ELSE {[i \in 1..NumLimbs(bits) |->
              IF i = 1 THEN lo ELSE IF i = NumLimbs(bits) THEN hi ELSE mid] :
             lo \in LimbSamples, hi \in LimbSamples, mid \in {0, 65535}}

\* each run makes one call
EncodeInteger(ty, w) ==
    /\ ~encKey.some
    /\ ser' = to_vec_pretty(VIntWords(ty, w), TestIndent)
    /\ encKey' = Some(<<VIntWords(ty, w), TestIndent, "to_vec_pretty">>)
    /\ encOut' = ser'.buf
    /\ UNCHANGED <<validateVars, threads, refKey, refOut, otherSince>>

\* characters of tests::str and the edges of the escape table and of the
\* UTF-8 lengths: every control character, space, '"', '/', '\', 'a', DEL,
\* U+0080, U+00E4, U+07FF, U+0800, U+09EC, U+211D, U+FFFF, U+10000, U+1F4A3,
\* U+10FFFF
StrChars ==
    (0..31) \cup {32, 34, 47, 92, 97, 127, 128, 228, 2047, 2048, 2540, 8477,
                  65535, 65536, 128163, 1114111}

Strings == UNION {[1..n -> StrChars] : n \in 0..MaxStrLen}

EncodeString(s) ==
    /\ ~encKey.some
    /\ ser' = to_string_pretty(VStr(s), TestIndent)
    /\ encKey' = Some(<<VStr(s), TestIndent, "to_string_pretty">>)
    /\ encOut' = ser'.buf
    /\ UNCHANGED <<validateVars, threads, refKey, refOut, otherSince>>

\* the shapes whose serialize_* method is unreachable!()
UnsupportedKinds == {"f32", "f64", "char", "bytes", "tuple_struct"}

EncodeUnsupported(kind) ==
    /\ ~encKey.some
    /\ ser' = to_vec_pretty([k |-> kind], TestIndent)
    /\ encKey' = Some(<<[k |-> kind], TestIndent, "to_vec_pretty">>)
    /\ encOut' = ser'.buf
    /\ UNCHANGED <<validateVars, threads, refKey, refOut, otherSince>>

NextScalar ==
    \/ ~encKey.some /\ \E ty \in IntTypes : \E w \in WordsOf(Bits(ty)) : EncodeInteger(ty, w)
    \/ ~encKey.some /\ \E s \in Strings : EncodeString(s)
    \/ ~encKey.some /\ \E kind \in UnsupportedKinds : EncodeUnsupported(kind)

SpecScalar == Init /\ [][NextScalar]_vars

(***************************************************************************)
(* transaction.rs : PubKeyValue::as_canonical / as_humanaddr, called on    *)
(* the key that validate returned.  The Api's human_address is the host's  *)
(* bech32 encoder, outside this repository: modelled from the              *)
(* specification as the pair of the host's prefix and the canonical        *)
(* address.                                                                *)
(***************************************************************************)
Ripemd160(data) == [alg |-> "ripemd160", msg |-> data]

\* output size in bytes of a digest
DigestSize(digest) ==
    CASE digest.alg = "ripemd160" -> 20
      [] digest.alg = "sha256" -> 32
      [] digest.alg = "keccak256" -> 32

\* "secret", "terra"
Str_secret == <<115, 101, 99, 114, 101, 116>>

Str_terra == <<116, 101, 114, 114, 97>>

\* hosts, told apart by their address prefix
Apis == {[prefix |-> Str_secret], [prefix |-> Str_terra]}

human_address(api, canonical) == Ok([hrp |-> api.prefix, data |-> canonical])

as_canonical(self) == Ripemd160(sha_256(self))

\* a variant that derives the address for one fixed host
as_humanaddr_one_host(self, api) ==
    human_address([prefix |-> Str_secret], as_canonical(self))

as_humanaddr(self, api) == human_address(api, as_canonical(self))

\* the key of memo_signature, with the keys of the other tests
PUBKEY_C == <<3, 157>>

AddrKeys == {PUBKEY_A, PUBKEY_B, PUBKEY_C, <<2>>}

DeriveCanonical(pk) ==
    /\ encKey' = Some(<<pk, <<>>, "as_canonical">>)
    /\ encOut' = as_canonical(pk)
    /\ otherSince' = (otherSince \/ (refKey.some /\ encKey' # refKey))
    /\ UNCHANGED <<validateVars, threads, ser, refKey, refOut>>

DeriveHuman(pk, api) ==
    /\ encKey' = Some(<<pk, api.prefix, "as_humanaddr">>)
    /\ encOut' = as_humanaddr(pk, api)
    /\ otherSince' = (otherSince \/ (refKey.some /\ encKey' # refKey))
    /\ UNCHANGED <<validateVars, threads, ser, refKey, refOut>>

NextAddr ==
    \/ \E pk \in AddrKeys : DeriveCanonical(pk)
    \/ \E pk \in AddrKeys, api \in Apis : DeriveHuman(pk, api)
    \/ Remember

SpecAddr == Init /\ [][NextAddr]_vars

(***************************************************************************)
(* The wallets' side, used to state the properties: which signatures exist *)
(* and what an honest secp256k1 primitive answers.                         *)
(***************************************************************************)
OkTrue == [ok |-> TRUE, verified |-> TRUE]

OkFalse == [ok |-> TRUE, verified |-> FALSE]

\* test_signed_tx: SIG_A is PUBKEY_A's signature over the direct digest of
\* TestPermit's envelope
OriginalDirect == TestPermit

\* after ethereum_signature: SIG_B is PUBKEY_B's signature over the
\* browser-wallet digest of the envelope of a permit that sets every optional
\* field explicitly
OriginalEth ==
    [params |-> TestPermitMsg(10),
     signature |-> [pub_key |-> PubKey_new(PUBKEY_B), signature |-> SIG_B],
     account_number |-> Some(0), chain_id |-> Some(Str_pulsar_1),
     sequence |-> Some(0), memo |-> Some(<<>>)]

\* the digest of the browser-wallet scheme for an envelope
ethereum_hash(tx) ==
    Keccak256(ethereum_signed_bytes(to_binary_pretty(SignedTx_serialize(tx)).buf))

SignedFacts ==
    {[original |-> OriginalDirect, signature |-> SIG_A, public_key |-> PUBKEY_A,
      hash |-> direct_hash(from_permit(OriginalDirect, None))],
     [original |-> OriginalEth, signature |-> SIG_B, public_key |-> PUBKEY_B,
      hash |-> ethereum_hash(from_permit(OriginalEth, None))]}

\* an honest primitive: an error for a malformed signature, otherwise whether
\* the signature was made by that key over that digest
honest_secp256k1_verify(hash, signature, public_key) ==
    IF signature = MALFORMED_SIG
    THEN [ok |-> FALSE, err |-> "Invalid signature format"]
    ELSE [ok |-> TRUE,
          verified |-> \E f \in SignedFacts :
                          /\ f.signature = signature
                          /\ f.public_key = public_key
                          /\ f.hash = hash]

\* every call of this validation was answered as the honest primitive answers
HonestRun ==
    \A i \in 1..Len(calls) :
        calls[i].result = honest_secp256k1_verify(calls[i].hash, calls[i].signature,
                                                  calls[i].public_key)

(***************************************************************************)
(* Several Permit::validate invocations running together, one per thread.  *)
(* Each step of an invocation is atomic; the steps of the invocations      *)
(* interleave freely.  What an invocation holds (its permit &self, its     *)
(* envelope, its Serializer, its result) is its own entry of threads; the  *)
(* api is shared and read only, and answers as a function of its           *)
(* arguments.                                                              *)
(***************************************************************************)
\* permits accepted by the direct scheme, by the browser-wallet scheme, by
\* neither, and a permit on which the primitive reports an error
ConcPermits ==
    {OriginalDirect,
     OriginalEth,
     [OriginalDirect EXCEPT !.params = TestPermitMsg(100)],
     [OriginalDirect EXCEPT !.signature.signature = MALFORMED_SIG]}

\* a variant in which the envelope is one slot shared by the invocations:
\* the envelope of the first invocation while that one runs
shared_signed_tx(t) ==
    IF threads[1].pc # "idle" THEN threads[1].signed_tx ELSE threads[t].signed_tx

\* permit.rs:36: the envelope that validate built and lends to
\* validate_signed_tx
own_signed_tx(t) == threads[t].signed_tx

TValidate(t, p) ==
    /\ threads[t].pc = "idle"
    /\ threads' = [threads EXCEPT ![t] =
           [pc |-> "direct", permit |-> p, msg_type |-> None,
            signed_tx |-> from_permit(p, None), ser |-> NoSerializer,
            result |-> None]]
    /\ UNCHANGED <<validateVars, ser, encVars>>

TDirectVerify(t) ==
    /\ threads[t].pc = "direct"
    /\ LET signature == threads[t].permit.signature
           pubkey == signature.pub_key.value
           verification_result ==
               honest_secp256k1_verify(direct_hash(own_signed_tx(t)),
                                       signature.signature, pubkey)
           returned == direct_return(verification_result, pubkey)
       IN threads' = [threads EXCEPT ![t].result = returned,
                                     ![t].pc = IF returned.some THEN "done"
                                               ELSE "ethereum"]
    /\ UNCHANGED <<validateVars, ser, encVars>>

TEthVerify(t) ==
    /\ threads[t].pc = "ethereum"
    /\ LET signature == threads[t].permit.signature
           pubkey == signature.pub_key.value
           pretty == to_binary_pretty(SignedTx_serialize(own_signed_tx(t)))
           verification_result ==
               honest_secp256k1_verify(Keccak256(ethereum_signed_bytes(pretty.buf)),
                                       signature.signature, pubkey)
       IN threads' = [threads EXCEPT
                         ![t].ser = pretty,
                         ![t].result = Some(ethereum_return(verification_result, pubkey)),
                         ![t].pc = "done"]
    /\ UNCHANGED <<validateVars, ser, encVars>>

TReturn(t) ==
    /\ threads[t].pc = "done"
    /\ threads' = [threads EXCEPT ![t] = IdleThread]
    /\ UNCHANGED <<validateVars, ser, encVars>>

NextConc ==
    \/ \E t \in Threads, p \in ConcPermits : TValidate(t, p)
    \/ \E t \in Threads : TDirectVerify(t)
    \/ \E t \in Threads : TEthVerify(t)
    \/ \E t \in Threads : TReturn(t)

SpecConc == Init /\ [][NextConc]_vars

pubkey_of_permit == permit.signature.pub_key.value

DirectCalls == {i \in 1..Len(calls) : calls[i].hash.alg = "sha256"}

EthereumCalls == {i \in 1..Len(calls) : calls[i].hash.alg = "keccak256"}

\* call i is a call for this permit's key and signature, on the digest of one
\* of the two schemes for this permit's envelope
CallOfPermit(i) ==
    /\ calls[i].public_key = pubkey_of_permit
    /\ calls[i].signature = permit.signature.signature
    /\ \/ calls[i].hash = [alg |-> "sha256", msg |-> to_binary(SignedTx_serialize(signed_tx))]
       \/ /\ calls[i].hash.alg = "keccak256"
          /\ calls[i].hash.msg = ethereum_signed_bytes(
                 to_vec_pretty(SignedTx_serialize(signed_tx), INDENT).buf)

(***************************************************************************)
(* Properties                                                              *)
(***************************************************************************)

\* C1: the primitive is first called with the direct digest (SHA-256 of the
\* compact encoding of the envelope); if that call answers Ok(true) validate
\* returns success there and the Keccak-256 digest is never submitted; the
\* browser-wallet call comes second, and only after a first answer other than
\* Ok(true).  A finished validation has made the direct call.
C1_SchemeOrder ==
    /\ Len(calls) <= 2
    /\ pc = "done" => Len(calls) >= 1
    /\ Len(calls) >= 1 =>
          /\ calls[1].hash.alg = "sha256"
          /\ calls[1].hash.msg = to_binary(SignedTx_serialize(signed_tx))
          /\ calls[1].result = OkTrue =>
                /\ Len(calls) = 1
                /\ pc = "done"
                /\ result = Some(Ok(pubkey_of_permit))
          /\ calls[1].result # OkTrue /\ pc = "done" => Len(calls) = 2
    /\ Len(calls) = 2 =>
          /\ calls[2].hash.alg = "keccak256"
          /\ calls[1].result # OkTrue

\* a validation that ended in the direct scheme, with one call only
C1_Witness ==
    /\ pc = "done"
    /\ Len(calls) = 1
    /\ calls[1].result = OkTrue
    /\ result.v.ok

\* C2: validate returns Ok(k) only if the primitive answered true to a call
\* for the permit's own key and signature on the direct or the browser-wallet
\* digest of its envelope, and then k is the permit's pub_key.value; in every
\* other case it returns an error.
C2_VerifiedOnlyIfAccepted ==
    pc = "done" =>
        /\ result.some
        /\ LET accepted == \E i \in 1..Len(calls) :
                               calls[i].result = OkTrue /\ CallOfPermit(i)
           IN IF accepted
              THEN result.v = Ok(pubkey_of_permit)
              ELSE ~result.v.ok

\* a validation accepted by the browser-wallet scheme
C2_Witness ==
    /\ pc = "done"
    /\ Len(calls) = 2
    /\ calls[2].result = OkTrue
    /\ result.v = Ok(pubkey_of_permit)

\* the permit carries the key and signature of fact f
CarriesSignature(f) ==
    /\ permit.signature.signature = f.signature
    /\ pubkey_of_permit = f.public_key

\* C3 as stated: with an honest primitive, a permit that carries an original's
\* key and signature and differs from the original in params or in memo fails
\* with the signature-invalid error, under both schemes.
C3_TamperFails_Original ==
    pc = "done" /\ HonestRun =>
        \A f \in SignedFacts :
            (/\ CarriesSignature(f)
             /\ \/ permit.params # f.original.params
                \/ permit.memo # f.original.memo)
            => result = Some(Err(SignatureInvalid))

\* C3 as amended: the memo that counts is the memo of the envelope, for which
\* an absent memo and an explicit empty memo are the same.
C3_TamperFails ==
    pc = "done" /\ HonestRun =>
        \A f \in SignedFacts :
            (/\ CarriesSignature(f)
             /\ \/ permit.params # f.original.params
                \/ unwrap_or(permit.memo, <<>>) # unwrap_or(f.original.memo, <<>>))
            => result = Some(Err(SignatureInvalid))

\* a tampered memo on the browser-wallet original, rejected by both schemes
C3_Witness ==
    /\ pc = "done"
    /\ HonestRun
    /\ permit = [OriginalEth EXCEPT !.memo = Some(Str_b64Encoded)]
    /\ msg_type = None
    /\ Len(calls) = 2
    /\ result = Some(Err(SignatureInvalid))

\* C4: when the direct call answers with an error, validation goes on: the
\* browser-wallet scheme is attempted, and validate succeeds whenever that
\* second call answers true.
C4_DirectErrorFallsBack ==
    (Len(calls) >= 1 /\ ~calls[1].result.ok) =>
        \/ pc = "ethereum" /\ ~result.some /\ Len(calls) = 1
        \/ /\ pc = "done"
           /\ Len(calls) = 2
           /\ calls[2].hash.alg = "keccak256"
           /\ calls[2].result = OkTrue => result = Some(Ok(pubkey_of_permit))

\* the direct call failed with an error and the second call accepted
C4_Witness ==
    /\ pc = "done"
    /\ Len(calls) = 2
    /\ ~calls[1].result.ok
    /\ calls[2].result = OkTrue
    /\ result = Some(Ok(pubkey_of_permit))

\* C5: if the primitive answers false for both digests, validate fails with
\* SignatureInvalid and returns no public key.
C5_NeitherValidates ==
    (/\ pc = "done"
     /\ DirectCalls # {}
     /\ \A i \in 1..Len(calls) : calls[i].result = OkFalse)
    => /\ EthereumCalls # {}
       /\ result = Some(Err(SignatureInvalid))
       /\ ~result.v.ok

C5_Witness ==
    /\ pc = "done"
    /\ Len(calls) = 2
    /\ calls[1].result = OkFalse
    /\ calls[2].result = OkFalse
    /\ result = Some(Err(SignatureInvalid))

\* C6 as stated: when the primitive reports an error (malformed key or
\* signature), validate fails with an error whose kind differs from the kind
\* of the SignatureInvalid error.
C6_MalformedInputDistinct ==
    (pc = "done" /\ Len(calls) = 2 /\ ~calls[2].result.ok) =>
        /\ ~result.v.ok
        /\ result.v.err.kind # SignatureInvalid.kind

\* C7: each scheme's primitive is called at most once per validation, and a
\* failed validation reports the failure of the browser-wallet call alone,
\* whatever the direct call answered.
C7_NoRetryLastReason ==
    /\ Cardinality(DirectCalls) <= 1
    /\ Cardinality(EthereumCalls) <= 1
    /\ (pc = "done" /\ ~result.v.ok) =>
          /\ Len(calls) = 2
          /\ result.v.err = IF calls[2].result.ok
                            THEN SignatureInvalid
                            ELSE generic_err(calls[2].result.err)

\* the direct call failed with an error, the second answered false: the error
\* returned is the second call's
C7_Witness ==
    /\ pc = "done"
    /\ Len(calls) = 2
    /\ ~calls[1].result.ok
    /\ calls[2].result = OkFalse
    /\ result = Some(Err(SignatureInvalid))

\* C8: the envelope built for any permit and override type carries the
\* permit's account_number, chain_id, memo and sequence when present and 0,
\* "secret-4", "" and 0 otherwise; the fee {amount: [{0, "uscrt"}], gas: 1};
\* and one message whose value is the permit's params and whose type is the
\* override type when supplied and "signature_proof" otherwise.
C8_EnvelopeDefaults ==
    pc # "idle" =>
        /\ signed_tx.account_number =
               IF permit.account_number.some THEN permit.account_number.v ELSE 0
        /\ signed_tx.chain_id =
               IF permit.chain_id.some THEN permit.chain_id.v ELSE Str_secret_4
        /\ signed_tx.memo = IF permit.memo.some THEN permit.memo.v ELSE <<>>
        /\ signed_tx.sequence = IF permit.sequence.some THEN permit.sequence.v ELSE 0
        /\ signed_tx.fee = [amount |-> <<[amount |-> 0, denom |-> Str_uscrt]>>, gas |-> 1]
        /\ Len(signed_tx.msgs) = 1
        /\ signed_tx.msgs[1].value = permit.params
        /\ signed_tx.msgs[1].type =
               IF msg_type.some THEN msg_type.v ELSE Str_signature_proof

\* an envelope built from a permit with every optional field absent
C8_Witness ==
    /\ pc = "direct"
    /\ ~permit.account_number.some
    /\ ~permit.chain_id.some
    /\ ~permit.memo.some
    /\ ~permit.sequence.some
    /\ ~msg_type.some
    /\ signed_tx.chain_id = Str_secret_4

\* C9 as stated: a permit whose pub_key.type is not the tendermint literal
\* fails verification (the primitive being honest).
C9_OtherKeyTypeFails ==
    (/\ pc = "done"
     /\ HonestRun
     /\ permit.signature.pub_key.type # TendermintPubKeyType)
    => ~result.v.ok

Min(S) == CHOOSE x \in S : \A y \in S : x <= y

\* the number of backslashes that end at position j, going back no further
\* than lo
RECURSIVE BackslashRun(_, _, _)
BackslashRun(b, j, lo) ==
    IF j < lo \/ b[j] # 92 THEN 0 ELSE 1 + BackslashRun(b, j - 1, lo)

\* index of the quote that closes the string literal whose content starts at
\* lo: the first quote not escaped by a backslash
CloseQuote(b, lo) ==
    LET quotes == {j \in lo..Len(b) : b[j] = 34 /\ BackslashRun(b, j - 1, lo) % 2 = 0}
    IN IF quotes = {} THEN Len(b) + 1 ELSE Min(quotes)

\* the string literals directly followed by a colon, from position i on
RECURSIVE KeysFrom(_, _)
KeysFrom(b, i) ==
    LET opens == {j \in i..Len(b) : b[j] = 34}
    IN IF opens = {} THEN <<>>
       ELSE LET o == Min(opens)
                j == CloseQuote(b, o + 1)
            IN (IF j < Len(b) /\ b[j + 1] = 58 THEN <<SubSeq(b, o + 1, j - 1)>> ELSE <<>>)
               \o KeysFrom(b, j + 1)

RECURSIVE DeclaredKeys(_)
RECURSIVE DeclaredKeysOfAll(_)
\* the keys a value declares, in declaration order (a variant's name is the
\* key of the object that wraps it)
DeclaredKeys(value) ==
    CASE value.k = "struct" ->
             DeclaredKeysOfAll([i \in 1..Len(value.fields) |->
                 [key |-> <<value.fields[i][1]>>, v |-> value.fields[i][2]]])
      [] value.k = "struct_variant" ->
             <<value.variant>> \o
             DeclaredKeysOfAll([i \in 1..Len(value.fields) |->
                 [key |-> <<value.fields[i][1]>>, v |-> value.fields[i][2]]])
      [] value.k = "newtype_variant" -> <<value.variant>> \o DeclaredKeys(value.v)
      [] value.k = "tuple_variant" ->
             <<value.variant>> \o
             DeclaredKeysOfAll([i \in 1..Len(value.elems) |->
                 [key |-> <<>>, v |-> value.elems[i]]])
      [] value.k \in {"seq", "tuple"} ->
             DeclaredKeysOfAll([i \in 1..Len(value.elems) |->
                 [key |-> <<>>, v |-> value.elems[i]]])
      [] value.k \in {"some", "newtype_struct"} -> DeclaredKeys(value.v)
      [] OTHER -> <<>>

DeclaredKeysOfAll(entries) ==
    IF entries = <<>> THEN <<>>
    ELSE Head(entries).key \o DeclaredKeys(Head(entries).v)
         \o DeclaredKeysOfAll(Tail(entries))

\* index of the envelope among the encoded values
EnvelopeIndex == 6

\* the latest encoding was made by the pretty encoder
PrettyEncoded == encKey.some /\ encKey.v[3] \in {"to_vec_pretty", "to_string_pretty"}

Occurrences(seq, x) == Cardinality({i \in 1..Len(seq) : seq[i] = x})

\* C11: the pretty encoder emits the keys of a value in the order in which
\* they are declared, never sorted or reordered; the envelope's own keys come
\* in the order account_number, chain_id, fee, memo, msgs, sequence (with the
\* keys of fee and msgs nested in their place) and each appears exactly once.
C11_DeclaredFieldOrder ==
    PrettyEncoded =>
        LET keys == KeysFrom(encOut, 1)
        IN /\ keys = DeclaredKeys(EncValues[encKey.v[1]])
           /\ encKey.v[1] = EnvelopeIndex =>
                 /\ keys = <<Str_account_number, Str_chain_id,
                             Str_fee, Str_amount, Str_amount, Str_denom, Str_gas,
                             Str_memo,
                             Str_msgs, Str_type, Str_value, Str_address, Str_some_number,
                             Str_sequence>>
                 /\ \A k \in {Str_account_number, Str_chain_id, Str_fee, Str_memo,
                               Str_msgs, Str_sequence} : Occurrences(keys, k) = 1

\* the envelope encoded by the pretty encoder
C11_Witness ==
    /\ PrettyEncoded
    /\ encKey.v[1] = EnvelopeIndex
    /\ Len(KeysFrom(encOut, 1)) = 14

\* the number of places where needle occurs in hay
Count(hay, needle) ==
    Cardinality({i \in 1..(Len(hay) - Len(needle) + 1) :
                    SubSeq(hay, i, i + Len(needle) - 1) = needle})

\* the value and the indent of the latest encoding
EncodedValue == EncValues[encKey.v[1]]

EncodedIndent == encKey.v[2]

RECURSIVE MulAddFrom(_, _, _, _)
MulAddFrom(w, i, carry, bits) ==
    IF i > Len(w) THEN [w |-> w, ok |-> carry = 0]
    ELSE LET cur == w[i] * 10 + carry
         IN MulAddFrom([w EXCEPT ![i] = cur % LimbMod(bits)], i + 1,
                       cur \div LimbMod(bits), bits)

RECURSIVE ParseDecimal(_, _, _)
ParseDecimal(digits, acc, bits) ==
    IF digits = <<>> THEN acc
    ELSE LET r == MulAddFrom(acc.w, 1, Head(digits) - 48, bits)
         IN IF ~r.ok THEN r ELSE ParseDecimal(Tail(digits), r, bits)

\* the latest encoding was of an integer
IntegerEncoded == encKey.some /\ encKey.v[1].k \in IntTypes

\* C13: an integer of any width is written as its base-10 digits, with no
\* leading zero and with a leading '-' exactly when it is negative (min_value
\* and zero included); the 128-bit types are written the same way between
\* double quotes.
C13_DecimalIntegers ==
    IntegerEncoded =>
        LET v == encKey.v[1]
            bits == Bits(v.k)
            quoted == bits = 128
            body == IF quoted THEN SubSeq(encOut, 2, Len(encOut) - 1) ELSE encOut
            neg == v.k \in SignedTypes /\ is_negative(v.w, bits)
            digits == IF neg THEN Tail(body) ELSE body
            parsed == ParseDecimal(digits, [w |-> zero_words(bits), ok |-> TRUE], bits)
        IN /\ ser.status = "ok"
           /\ quoted => /\ Len(encOut) >= 3
                        /\ encOut[1] = 34
                        /\ encOut[Len(encOut)] = 34
           /\ neg => body[1] = 45
           /\ Len(digits) >= 1
           /\ \A i \in 1..Len(digits) : digits[i] \in 48..57
           /\ Len(digits) > 1 => digits[1] # 48
           /\ parsed.ok
           /\ parsed.w = IF neg THEN negate(v.w, bits) ELSE v.w

\* i64::min_value() has been encoded: "-9223372036854775808"
C13_Witness ==
    /\ IntegerEncoded
    /\ encKey.v[1] = VIntWords("i64", min_value(64))
    /\ encOut = <<45, 57, 50, 50, 51, 51, 55, 50, 48, 51, 54, 56, 53, 52, 55, 55, 53, 56, 48, 56>>

(***************************************************************************)
(* Reading a string literal back, character by character.                  *)
(***************************************************************************)
HexDigits == <<48, 49, 50, 51, 52, 53, 54, 55, 56, 57, 65, 66, 67, 68, 69, 70>>

\* the characters with a two-character escape, and the escape's second byte
ShortEscapes == {92, 34, 8, 9, 10, 12, 13}

ShortEscape(c) ==
    CASE c = 92 -> 92
      [] c = 34 -> 34
      [] c = 8 -> 98
      [] c = 9 -> 116
      [] c = 10 -> 110
      [] c = 12 -> 102
      [] c = 13 -> 114

\* the length of the UTF-8 sequence that a lead byte announces
Utf8Len(lead) ==
    IF lead < 128 THEN 1
    ELSE IF lead \in 192..223 THEN 2
    ELSE IF lead \in 224..239 THEN 3
    ELSE IF lead \in 240..247 THEN 4
    ELSE 0

\* the code point of the UTF-8 sequence of n bytes at position i
Utf8Decode(b, i, n) ==
    CASE n = 1 -> b[i]
      [] n = 2 -> (b[i] - 192) * 64 + (b[i + 1] - 128)
      [] n = 3 -> (b[i] - 224) * 4096 + (b[i + 1] - 128) * 64 + (b[i + 2] - 128)
      [] n = 4 -> (b[i] - 240) * 262144 + (b[i + 1] - 128) * 4096
                  + (b[i + 2] - 128) * 64 + (b[i + 3] - 128)

\* the shortest UTF-8 length of a code point
MinimalLen(c) == IF c < 128 THEN 1 ELSE IF c < 2048 THEN 2 ELSE IF c < 65536 THEN 3 ELSE 4

\* from position i on, b holds the encodings of chars by the table, then a
\* closing quote, then nothing
RECURSIVE EncodesFrom(_, _, _)
EncodesFrom(b, i, chars) ==
    IF chars = <<>> THEN i = Len(b) /\ b[i] = 34
    ELSE LET c == Head(chars)
         IN IF c \in ShortEscapes
            THEN /\ i + 1 <= Len(b)
                 /\ SubSeq(b, i, i + 1) = <<92, ShortEscape(c)>>
                 /\ EncodesFrom(b, i + 2, Tail(chars))
            ELSE IF c \in 0..31
            THEN /\ i + 5 <= Len(b)
                 /\ SubSeq(b, i, i + 5) = <<92, 117, 48, 48, HexDigits[(c \div 16) + 1],
                                            HexDigits[(c % 16) + 1]>>
                 /\ EncodesFrom(b, i + 6, Tail(chars))
            ELSE /\ i <= Len(b)
                 /\ LET n == Utf8Len(b[i])
                    IN /\ n = MinimalLen(c)
                       /\ i + n - 1 <= Len(b)
                       /\ \A j \in (i + 1)..(i + n - 1) : b[j] \in 128..191
                       /\ Utf8Decode(b, i, n) = c
                       /\ EncodesFrom(b, i + n, Tail(chars))

\* the latest encoding was of a string
StringEncoded == encKey.some /\ encKey.v[1].k = "str"

\* C14: serialize_str writes a double quote, each character by the table
\* (two-character escapes for \ " and U+0008, 9, A, C, D; \u00XX with
\* upper-case hex for the other characters up to U+001F; the character's
\* own minimal UTF-8 bytes for every other character), and a double quote.
C14_EscapeTable ==
    StringEncoded =>
        /\ ser.status = "ok"
        /\ Len(encOut) >= 2
        /\ encOut[1] = 34
        /\ EncodesFrom(encOut, 2, encKey.v[1].s)

\* U+001F followed by U+1F4A3 has been encoded
C14_Witness ==
    /\ StringEncoded
    /\ encKey.v[1].s = <<31, 128163>>
    /\ encOut = <<34, 92, 117, 48, 48, 49, 70, 240, 159, 146, 163, 34>>

(***************************************************************************)
(* The layout of a struct or sequence in pretty mode.                      *)
(***************************************************************************)
\* what the encoder writes for an entry that sits at the given depth
EntryAt(value, ind, depth) ==
    serialize([buf |-> <<>>, current_indent |-> depth, indent |-> ind, status |-> "ok"],
              value).buf

\* the entries of a struct or sequence: key (with its quotes, colon and
\* space; empty for a sequence) and value
EntriesOf(value) ==
    IF value.k = "struct"
    THEN [i \in 1..Len(value.fields) |->
             [key |-> <<34>> \o value.fields[i][1] \o <<34, 58, 32>>,
              v |-> value.fields[i][2]]]
    ELSE [i \in 1..Len(value.elems) |-> [key |-> <<>>, v |-> value.elems[i]]]

\* newline, indent and entry for each entry from the i-th on, a comma
\* directly after each entry but the last
RECURSIVE LayoutFrom(_, _, _, _)
LayoutFrom(entries, i, ind, depth) ==
    IF i > Len(entries) THEN <<>>
    ELSE <<10>> \o Repeat(ind, depth) \o entries[i].key
         \o EntryAt(entries[i].v, ind, depth)
         \o (IF i < Len(entries) THEN <<44>> ELSE <<>>)
         \o LayoutFrom(entries, i + 1, ind, depth)

\* C15: in pretty mode a struct or sequence of n >= 1 entries is the opening
\* bracket, then per entry a newline, the indent once per nesting depth and
\* the entry, with n-1 commas each directly after an entry, then a newline,
\* the indent of the enclosing depth and the closing bracket; with no entry
\* it is {} or [].
C15_PrettyLayout ==
    (PrettyEncoded /\ EncodedValue.k \in {"struct", "seq"}) =>
        LET entries == EntriesOf(EncodedValue)
            open == IF EncodedValue.k = "struct" THEN <<123>> ELSE <<91>>
            close == IF EncodedValue.k = "struct" THEN <<125>> ELSE <<93>>
        IN encOut = IF entries = <<>>
                    THEN open \o close
                    ELSE open \o LayoutFrom(entries, 1, EncodedIndent, 1)
                         \o <<10>> \o close

(***************************************************************************)
(* Pretty and compact encodings of one value.                              *)
(***************************************************************************)
NotWhitespace(x) == x \notin {32, 10, 13, 9}

\* b from position i on, without the whitespace that lies outside its string
\* literals
RECURSIVE StripFrom(_, _)
StripFrom(b, i) ==
    LET opens == {j \in i..Len(b) : b[j] = 34}
    IN IF opens = {} THEN SelectSeq(SubSeq(b, i, Len(b)), NotWhitespace)
       ELSE LET o == Min(opens)
                j == CloseQuote(b, o + 1)
            IN SelectSeq(SubSeq(b, i, o - 1), NotWhitespace) \o SubSeq(b, o, j)
               \o StripFrom(b, j + 1)

\* C16: the pretty encoding of a value differs from its compact encoding by
\* whitespace only: without the whitespace outside string literals it is the
\* compact encoding, byte for byte (same keys, same order, same escapes),
\* for structs, sequences and the newtype, tuple and struct variants.
C16_PrettyIsCompactPlusWhitespace ==
    PrettyEncoded => StripFrom(encOut, 1) = to_binary(EncodedValue)

\* a struct variant has been encoded, and whitespace was added
C16_Witness ==
    /\ PrettyEncoded
    /\ EncodedValue.k = "struct_variant"
    /\ Len(encOut) > Len(to_binary(EncodedValue))
    /\ StripFrom(encOut, 1) = to_binary(EncodedValue)

\* the latest call was given a value of an unsupported shape
UnsupportedEncoded == encKey.some /\ encKey.v[1].k \in UnsupportedKinds

\* C17: the encoder, asked to encode a floating-point number, raw bytes or a
\* tuple struct, returns an error of the Unsupported kind to its caller and
\* produces no output; it ends in no other way.  (status is "ok" when the
\* call returned Ok, "panic" when it ended in unreachable!(); a returned
\* error would be a status naming the Error variant.)
C17_UnsupportedIsReturned ==
    UnsupportedEncoded =>
        /\ ser.status = "Unsupported"
        /\ encOut = <<>>

(***************************************************************************)
(* The message of the browser-wallet scheme.                               *)
(***************************************************************************)
\* "\x19Ethereum Signed Message:\n", byte by byte
PersonalSignPrefix ==
    <<25, 69, 116, 104, 101, 114, 101, 117, 109, 32, 83, 105, 103, 110, 101, 100, 32,
      77, 101, 115, 115, 97, 103, 101, 58, 10>>

FourSpaces == <<32, 32, 32, 32>>

\* the number a sequence of ASCII digits writes
RECURSIVE DecimalValue(_)
DecimalValue(digits) ==
    IF digits = <<>> THEN 0
    ELSE DecimalValue(SubSeq(digits, 1, Len(digits) - 1)) * 10
         + (digits[Len(digits)] - 48)

\* how many digits b starts with
LeadingDigits(b) ==
    LET others == {j \in 1..Len(b) : b[j] \notin 48..57}
    IN IF others = {} THEN Len(b) ELSE Min(others) - 1

\* C18: the message hashed for the browser-wallet scheme is the bytes
\* "\x19Ethereum Signed Message:\n", then the decimal length in bytes of the
\* pretty encoding (indent of four spaces) of the envelope, then that
\* encoding; the length written equals the number of bytes that follow it,
\* and the digest submitted is the Keccak-256 of this message.
C18_PersonalSignMessage ==
    Len(calls) = 2 =>
        LET msg == calls[2].hash.msg
            rest == SubSeq(msg, Len(PersonalSignPrefix) + 1, Len(msg))
            k == LeadingDigits(rest)
            body == SubSeq(rest, k + 1, Len(rest))
        IN /\ calls[2].hash.alg = "keccak256"
           /\ Len(msg) > Len(PersonalSignPrefix)
           /\ SubSeq(msg, 1, Len(PersonalSignPrefix)) = PersonalSignPrefix
           /\ k >= 1
           /\ rest[1] # 48
           /\ DecimalValue(SubSeq(rest, 1, k)) = Len(body)
           /\ body = to_vec_pretty(SignedTx_serialize(signed_tx), FourSpaces).buf

\* the browser-wallet digest of an envelope of more than 99 bytes was submitted
C18_Witness ==
    /\ Len(calls) = 2
    /\ calls[2].hash.alg = "keccak256"
    /\ LeadingDigits(SubSeq(calls[2].hash.msg, Len(PersonalSignPrefix) + 1,
                            Len(calls[2].hash.msg))) = 3

validate_alone(p) ==
    LET tx == from_permit(p, None)
        pubkey == p.signature.pub_key.value
        first == direct_return(
                     honest_secp256k1_verify(direct_hash(tx), p.signature.signature, pubkey),
                     pubkey)
    IN IF first.some THEN first.v
       ELSE ethereum_return(
                honest_secp256k1_verify(ethereum_hash(tx), p.signature.signature, pubkey),
                pubkey)

\* C20: in every interleaving of several validations, each one holds the
\* envelope of its own permit for as long as it runs, its serializer ends
\* with the indent counter at 0 and the encoding of its own envelope, and
\* what it returns is what it returns when it runs alone.
C20_IndependentValidations ==
    \A t \in Threads :
        /\ threads[t].pc # "idle" =>
               threads[t].signed_tx = from_permit(threads[t].permit, None)
        /\ threads[t].pc = "done" =>
               /\ threads[t].result = Some(validate_alone(threads[t].permit))
               /\ threads[t].ser # NoSerializer =>
                      threads[t].ser =
                          to_binary_pretty(SignedTx_serialize(
                              from_permit(threads[t].permit, None)))

\* two validations in flight at once: the second has ended in an error after
\* both schemes while the first, of another permit, is between its two calls
C20_Witness ==
    /\ threads[1].pc = "ethereum"
    /\ threads[1].permit = OriginalEth
    /\ threads[2].pc = "done"
    /\ threads[2].permit # threads[1].permit
    /\ threads[2].ser # NoSerializer
    /\ ~threads[2].result.v.ok

(***************************************************************************)
(* The indent counter of the pretty serializer.                            *)
(***************************************************************************)
\* C21: the indent counter is balanced: once to_vec_pretty or
\* to_string_pretty has serialized a supported value (a struct, a sequence,
\* a tuple, or a newtype, tuple or struct enum variant, nested to any
\* depth), the counter never went below zero (no decrement at 0 was
\* attempted) and current_indent is back at 0, the value it had before the
\* value was serialized.
C21_IndentBalanced ==
    PrettyEncoded =>
        /\ ser.status = "ok"
        /\ ser.current_indent = 0

(***************************************************************************)
(* Absent optional fields and their defaults.                              *)
(***************************************************************************)
\* the values of an optional field that differ from opt at most in being
\* absent instead of explicitly the default, or the reverse
DefaultVariants(opt, default) ==
    IF opt = None \/ opt = Some(default) THEN {None, Some(default)} ELSE {opt}

\* the permits with the params, public key and signature of p that differ
\* from p only in that optional fields are absent in one and explicitly the
\* default in the other
PermitVariants(p) ==
    {[p EXCEPT !.account_number = a, !.chain_id = c, !.sequence = s, !.memo = m] :
        a \in DefaultVariants(p.account_number, 0),
        c \in DefaultVariants(p.chain_id, Str_secret_4),
        s \in DefaultVariants(p.sequence, 0),
        m \in DefaultVariants(p.memo, <<>>)}

\* p with every optional field that is absent set explicitly to its default
ExplicitDefaults(p) ==
    [p EXCEPT !.account_number = Some(unwrap_or(p.account_number, 0)),
              !.chain_id = Some(unwrap_or(p.chain_id, Str_secret_4)),
              !.sequence = Some(unwrap_or(p.sequence, 0)),
              !.memo = Some(unwrap_or(p.memo, <<>>))]

\* what Permit::validate returns for permit p and override type t with an
\* honest primitive
validate_honest(p, t) ==
    LET tx == from_permit(p, t)
        pubkey == p.signature.pub_key.value
        first == direct_return(
                     honest_secp256k1_verify(direct_hash(tx), p.signature.signature, pubkey),
                     pubkey)
    IN IF first.some THEN first.v
       ELSE ethereum_return(
                honest_secp256k1_verify(ethereum_hash(tx), p.signature.signature, pubkey),
                pubkey)

\* C22: a permit and every permit that differs from it only in leaving an
\* optional field (account_number, chain_id, sequence, memo) absent instead
\* of setting it to the default (0, "secret-4", 0, ""), validated with an
\* override type that differs at most in being absent instead of
\* "signature_proof", have the same envelope; the digests submitted under
\* both schemes are the digests of the counterpart with every default made
\* explicit, and with an honest primitive the validation returns what the
\* validation of that counterpart returns.
C22_DefaultsIndistinguishable ==
    pc # "idle" =>
        /\ \A q \in PermitVariants(permit) :
               \A u \in DefaultVariants(msg_type, Str_signature_proof) :
                   from_permit(q, u) = signed_tx
        /\ LET q == ExplicitDefaults(permit)
               u == Some(unwrap_or(msg_type, Str_signature_proof))
           IN /\ q \in PermitVariants(permit)
              /\ Len(calls) >= 1 => calls[1].hash = direct_hash(from_permit(q, u))
              /\ Len(calls) >= 2 => calls[2].hash = ethereum_hash(from_permit(q, u))
              /\ (pc = "done" /\ HonestRun) => result = Some(validate_honest(q, u))

\* a validation of a permit with absent account_number, sequence and memo
\* and an absent override type has been accepted by an honest primitive, and
\* the permit has counterparts that set those fields explicitly
C22_Witness ==
    /\ pc = "done"
    /\ HonestRun
    /\ result.v.ok
    /\ permit.account_number = None
    /\ permit.sequence = None
    /\ permit.memo = None
    /\ msg_type = None
    /\ ExplicitDefaults(permit) # permit
    /\ Cardinality(PermitVariants(permit)) = 8

====
